---- MODULE Spec2Model ----
(***************************************************************************)
(* A model of fcache.Cache (src/fcache.py): a persistent key/value cache   *)
(* kept in one pickle file.  Every public call re-reads the whole file and *)
(* every mutating call rewrites it.                                        *)
(*                                                                         *)
(* Time is counted in microseconds, as datetime does; the clock advances   *)
(* in steps of TickMicros.  A file is a sequence of pickle opcodes.        *)
(***************************************************************************)
EXTENDS Integers, Sequences, FiniteSets, TLC

(***************************************************************************)
(* Bounds and input sets                                                   *)
(***************************************************************************)
MaxTicks == 2

Instances == {"A", "B"}

Keys == {"k1", "k2"}

KeyOrder == <<"k1", "k2">>

None == "None"

Unpicklable == "<lambda>"

Values == {"v1", "v2"}

SetValues == Values \cup {Unpicklable}

MicrosPerSecond == 1000000

\* the clock advances by half a second
TickMicros == MicrosPerSecond \div 2

\* timeout=None is <<>>; a timeout in seconds is written in microseconds:
\* timeout=-0.5 is <<-500000>>, timeout=0 is <<0>>, timeout=0.5 is <<500000>>
Timeouts == {<<>>, <<0 - TickMicros>>, <<0>>, <<TickMicros>>}

\* default=None, a falsy default and a truthy default
Defaults == {None, "", "d"}

CacheNames == {"c"}

AppNames == {"app"}

AppAuthors == {None, "", "app"}

(***************************************************************************)
(* Paths: appdirs.user_cache_dir and hashlib.sha1                          *)
(***************************************************************************)
user_cache_dir(appname, appauthor) == <<appauthor, appname, "Cache">>

sha1_hexdigest(cachename) ==
    IF cachename = "c" THEN "84a516841ba77a5b4648de2cd0dfcb30ea46dbb4"
    ELSE "da39a3ee5e6b4b0d3255bfef95601890afd80709"

NoDefaultAuthor(appname, appauthor) == appauthor

DefaultAuthor(appname, appauthor) ==
    IF appauthor = None \/ appauthor = "" THEN appname ELSE appauthor

Cache_cachedir(appname, appauthor) ==
    user_cache_dir(appname, DefaultAuthor(appname, appauthor))

Cache_filename(cachename, appname, appauthor) ==
    [dir |-> Cache_cachedir(appname, appauthor), name |-> sha1_hexdigest(cachename)]

Dirs == {user_cache_dir(n, a) : n \in AppNames, a \in AppAuthors}

Paths == {[dir |-> d, name |-> sha1_hexdigest(c)] : d \in Dirs, c \in CacheNames}

NoPath == [dir |-> <<>>, name |-> ""]

(***************************************************************************)
(* Files and the pickle codec                                              *)
(***************************************************************************)
Absent == [exists |-> FALSE, bytes |-> <<>>]

File(b) == [exists |-> TRUE, bytes |-> b]

Op(o) == [op |-> o, key |-> "", expires |-> <<>>, data |-> ""]

Item(k, e) == [op |-> "SETITEM", key |-> k, expires |-> e.expires, data |-> e.data]

Entry(expires, value) == [expires |-> expires, data |-> value]

EmptyDict == [k \in {} |-> Entry(<<>>, "")]

IsKey(m, k) == k \in DOMAIN m

Picklable(m) == \A k \in DOMAIN m : m[k].data # Unpicklable

\* pickle.dumps of a dict of entries: PROTO, one SETITEM per key, STOP
pickle_dumps(m) ==
    LET ks == SelectSeq(KeyOrder, LAMBDA k : k \in DOMAIN m)
    IN  <<Op("PROTO")>> \o [n \in 1..Len(ks) |-> Item(ks[n], m[ks[n]])] \o <<Op("STOP")>>

\* pickle.load succeeds on a complete pickle only
Decodable(b) ==
    /\ Len(b) >= 2
    /\ b[1].op = "PROTO"
    /\ b[Len(b)].op = "STOP"
    /\ \A n \in 2..(Len(b) - 1) : b[n].op = "SETITEM"

pickle_loads(b) ==
    LET items == {n \in 2..(Len(b) - 1) : b[n].op = "SETITEM"}
    IN  [k \in {b[n].key : n \in items} |->
            LET n == CHOOSE x \in items : b[x].key = k
            IN  Entry(b[n].expires, b[n].data)]

\* what pickle.dump leaves in a file opened "wb" when it raises on the first
\* unpicklable value: nothing, or any part of what precedes that value
TornDumps(m) ==
    LET ks   == SelectSeq(KeyOrder, LAMBDA k : k \in DOMAIN m)
        bad  == CHOOSE n \in 1..Len(ks) :
                    /\ m[ks[n]].data = Unpicklable
                    /\ \A j \in 1..(n - 1) : m[ks[j]].data # Unpicklable
        full == pickle_dumps(m)
    IN  {SubSeq(full, 1, n) : n \in 0..bad}

(***************************************************************************)
(* datetime arithmetic, in microseconds                                    *)
(***************************************************************************)
SecondsPerDay == 24 * 3600

\* datetime.timedelta(seconds=t), t written in microseconds
timedelta(micros) == micros

\* the normalised fields of a timedelta: 0 <= microseconds < 10^6,
\* 0 <= seconds < 86400, days of either sign
td_microseconds(td) == td % MicrosPerSecond

td_seconds(td) == (td \div MicrosPerSecond) % SecondsPerDay

td_days(td) == (td \div MicrosPerSecond) \div SecondsPerDay

\* Cache._total_seconds; "/" on two ints rounds down (true division gives
\* the same sign, which is all that get uses)
total_seconds(td) ==
    (td_microseconds(td) + (td_seconds(td) + td_days(td) * 24 * 3600) * MicrosPerSecond)
        \div MicrosPerSecond

(***************************************************************************)
(* The methods of Cache as functions of the backing file f and the clock.  *)
(* A call yields a result [ret, exc]; a call that writes yields the set of *)
(* [file, exc] it can leave behind.                                        *)
(***************************************************************************)
Return(v) == [ret |-> v, exc |-> ""]

Raise(e) == [ret |-> None, exc |-> e]

Left(f, e) == [file |-> f, exc |-> e]

\* Cache._read: open(filename, "rb"), pickle.load
Cache_read(f) ==
    IF ~f.exists THEN "IOError"
    ELSE IF ~Decodable(f.bytes) THEN "EOFError"
    ELSE ""

\* Cache._write: open(filename, "wb") truncates, then pickle.dump
Cache_write(data) ==
    IF Picklable(data)
    THEN {Left(File(pickle_dumps(data)), "")}
    ELSE {Left(File(b), "PicklingError") : b \in TornDumps(data)}

SetExpires(clock, timeout) ==
    IF timeout = <<>> THEN <<>> ELSE <<clock + timedelta(timeout[1])>>

Cache_set(f, clock, key, value, timeout) ==
    IF Cache_read(f) # "" THEN {Left(f, Cache_read(f))}
    ELSE LET data == pickle_loads(f.bytes)
             new  == [k \in DOMAIN data \cup {key} |->
                         IF k = key THEN Entry(SetExpires(clock, timeout), value)
                         ELSE data[k]]
         IN  Cache_write(new)

GetTruthyDefault(default) ==
    IF default # None /\ default # "" THEN Return(default) ELSE Raise("KeyError")

\* get, the except KeyError branch
GetDefault(default) ==
    IF default # None THEN Return(default) ELSE Raise("KeyError")

GetExpiredAsDefault(default) == GetDefault(default)

\* get, the else branch of the expiry test
GetExpired(default) == Return(None)

Cache_get(f, clock, key, override, default) ==
    IF Cache_read(f) # "" THEN Raise(Cache_read(f))
    ELSE LET data == pickle_loads(f.bytes)
         IN  IF IsKey(data, key)
             THEN IF \/ data[key].expires = <<>>
                     \/ total_seconds(clock - data[key].expires[1]) < 0
                     \/ override
                  THEN Return(data[key].data)
                  ELSE GetExpired(default)
             ELSE GetDefault(default)

Cache_invalidate(f, clock, key) ==
    IF Cache_read(f) # "" THEN {Left(f, Cache_read(f))}
    ELSE LET data == pickle_loads(f.bytes)
         IN  IF ~IsKey(data, key) THEN {Left(f, "KeyError")}
             ELSE Cache_write([data EXCEPT ![key].expires = <<clock>>])

\* remove that passes over a missing key: data.pop(key, None)
RemoveIgnoreMissing(f, key) ==
    IF Cache_read(f) # "" THEN {Left(f, Cache_read(f))}
    ELSE LET data == pickle_loads(f.bytes)
         IN  Cache_write([k \in DOMAIN data \ {key} |-> data[k]])

Cache_remove(f, key) ==
    IF Cache_read(f) # "" THEN {Left(f, Cache_read(f))}
    ELSE LET data == pickle_loads(f.bytes)
         IN  IF ~IsKey(data, key) THEN {Left(f, "KeyError")}
             ELSE Cache_write([k \in DOMAIN data \ {key} |-> data[k]])

\* flush without its existence test
FlushNoCheck(f) == Cache_write(EmptyDict)

Cache_flush(f) ==
    IF ~f.exists THEN {Left(f, "IOError")}
    ELSE Cache_write(EmptyDict)

Cache_delete(f) ==
    IF ~f.exists THEN Left(f, "OSError") ELSE Left(Absent, "")

\* Cache._create: tempfile.mkstemp in cachedir, os.rename onto filename
Cache_create(f) == File(<<>>)

\* __init__ that creates the file and leaves out the flush
InitNoFlush(f) ==
    IF ~f.exists THEN Left(Cache_create(f), "") ELSE Left(f, "")

InitAlwaysFlush(f) == CHOOSE o \in Cache_flush(Cache_create(f)) : TRUE

\* Cache.__init__, from the existence test on
Cache_init(f) ==
    IF ~f.exists THEN CHOOSE o \in Cache_flush(Cache_create(f)) : TRUE
    ELSE Left(f, "")

(***************************************************************************)
(* State                                                                   *)
(*   fs    the file system: the file under every path                      *)
(*   dirs  the directories that exist                                      *)
(*   inst  the Cache objects: cachename, cachedir and filename             *)
(*   now   datetime.datetime.now()                                         *)
(*   last  the last step: the call and its outcome                         *)
(*   hist  per key, the last write that concerned it (history variable)    *)
(*   writer  the instance whose call last rewrote a file (history variable)*)
(*   pc    per Cache object, the step its running call has reached         *)
(*   mem   per Cache object, the locals of its running call                *)
(***************************************************************************)
VARIABLES fs, dirs, inst, now, last, hist, writer, pc, mem

vars == <<fs, dirs, inst, now, last, hist, writer, pc, mem>>

NoInstance == [constructed |-> FALSE, cachename |-> "", cachedir |-> <<>>, filename |-> NoPath]

Call(o, i, k, ov, d, r, e, x) ==
    [op |-> o, inst |-> i, key |-> k, override |-> ov,
     default |-> d, ret |-> r, exc |-> e, existed |-> x]

Wrote(o, v, dl) == [op |-> o, data |-> v, deadline |-> dl]

\* the locals of a call that writes: the bytes it dumps and the exception the
\* dump raises; before is the file it found when it opened for writing
\* (history)
Locals(o, k, bf, b, e) ==
    [op |-> o, key |-> k, before |-> bf, bytes |-> b, exc |-> e]

NoCall == Locals("none", "", Absent, <<>>, "")

Init ==
    /\ fs = [p \in Paths |-> Absent]
    /\ dirs = {}
    /\ inst = [i \in Instances |-> NoInstance]
    /\ now = 0
    /\ last = Call("none", "", "", FALSE, None, None, "", FALSE)
    /\ hist = [k \in Keys |-> Wrote("none", "", <<>>)]
    /\ writer = ""
    /\ pc = [i \in Instances |-> "idle"]
    /\ mem = [i \in Instances |-> NoCall]

\* Cache(cachename, appname, appauthor)
construct(i, cachename, appname, appauthor) ==
    LET dir == Cache_cachedir(appname, appauthor)
        p   == Cache_filename(cachename, appname, appauthor)
        o   == Cache_init(fs[p])
    IN  /\ inst' = [inst EXCEPT ![i] = [constructed |-> TRUE, cachename |-> cachename,
                                        cachedir |-> dir, filename |-> p]]
        /\ fs' = [fs EXCEPT ![p] = o.file]
        /\ dirs' = IF fs[p].exists THEN dirs ELSE dirs \cup {dir}
        /\ last' = Call("construct", i, "", FALSE, None, None, o.exc, fs[p].exists)
        /\ hist' = IF fs[p].exists THEN hist
                   ELSE [k \in Keys |->
                            Wrote(IF hist[k].op = "delete" THEN "recreate" ELSE "create",
                                  "", <<>>)]
        /\ writer' = IF fs[p].exists THEN writer ELSE i
        /\ UNCHANGED <<now, pc, mem>>

\* i.set(key, value, timeout)
set(i, key, value, timeout) ==
    /\ inst[i].constructed
    /\ \E o \in Cache_set(fs[inst[i].filename], now, key, value, timeout) :
        /\ fs' = [fs EXCEPT ![inst[i].filename] = o.file]
        /\ last' = Call("set", i, key, FALSE, None, None, o.exc, TRUE)
        /\ hist' = IF o.exc = ""
                   THEN [hist EXCEPT ![key] =
                            Wrote("set", value,
                                  IF timeout = <<>> THEN <<>>
                                  ELSE <<now + timeout[1]>>)]
                   ELSE IF o.exc = "PicklingError"
                   THEN [hist EXCEPT ![key] = Wrote("set failed", "", <<>>)]
                   ELSE hist
        /\ writer' = IF o.exc \in {"", "PicklingError"} THEN i ELSE writer
    /\ UNCHANGED <<dirs, inst, now, pc, mem>>

\* i.get(key, override, default)
get(i, key, override, default) ==
    /\ inst[i].constructed
    /\ LET r == Cache_get(fs[inst[i].filename], now, key, override, default)
       IN  last' = Call("get", i, key, override, default, r.ret, r.exc, TRUE)
    /\ UNCHANGED <<fs, dirs, inst, now, hist, writer, pc, mem>>

\* i.invalidate(key)
invalidate(i, key) ==
    /\ inst[i].constructed
    /\ \E o \in Cache_invalidate(fs[inst[i].filename], now, key) :
        /\ fs' = [fs EXCEPT ![inst[i].filename] = o.file]
        /\ last' = Call("invalidate", i, key, FALSE, None, None, o.exc, TRUE)
        /\ hist' = IF o.exc = ""
                   THEN [hist EXCEPT ![key] = Wrote("invalidate", hist[key].data, <<now>>)]
                   ELSE hist
        /\ writer' = IF o.exc = "" THEN i ELSE writer
    /\ UNCHANGED <<dirs, inst, now, pc, mem>>

\* i.remove(key)
remove(i, key) ==
    /\ inst[i].constructed
    /\ \E o \in Cache_remove(fs[inst[i].filename], key) :
        /\ fs' = [fs EXCEPT ![inst[i].filename] = o.file]
        /\ last' = Call("remove", i, key, FALSE, None, None, o.exc, TRUE)
        /\ hist' = IF o.exc = ""
                   THEN [hist EXCEPT ![key] = Wrote("remove", "", <<>>)]
                   ELSE hist
        /\ writer' = IF o.exc = "" THEN i ELSE writer
    /\ UNCHANGED <<dirs, inst, now, pc, mem>>

\* i.flush()
flush(i) ==
    /\ inst[i].constructed
    /\ \E o \in Cache_flush(fs[inst[i].filename]) :
        /\ fs' = [fs EXCEPT ![inst[i].filename] = o.file]
        /\ last' = Call("flush", i, "", FALSE, None, None, o.exc, TRUE)
        /\ hist' = IF o.exc = ""
                   THEN [k \in Keys |-> Wrote("flush", "", <<>>)]
                   ELSE hist
        /\ writer' = IF o.exc = "" THEN i ELSE writer
    /\ UNCHANGED <<dirs, inst, now, pc, mem>>

\* i.delete()
delete(i) ==
    /\ inst[i].constructed
    /\ LET o == Cache_delete(fs[inst[i].filename])
       IN  /\ fs' = [fs EXCEPT ![inst[i].filename] = o.file]
           /\ last' = Call("delete", i, "", FALSE, None, None, o.exc, TRUE)
           /\ hist' = IF o.exc = ""
                      THEN [k \in Keys |-> Wrote("delete", "", <<>>)]
                      ELSE hist
           /\ writer' = IF o.exc = "" THEN i ELSE writer
    /\ UNCHANGED <<dirs, inst, now, pc, mem>>

\* the clock advances; it never goes backwards
Tick ==
    /\ now < MaxTicks * TickMicros
    /\ now' = now + TickMicros
    /\ last' = Call("tick", "", "", FALSE, None, None, "", FALSE)
    /\ UNCHANGED <<fs, dirs, inst, hist, writer, pc, mem>>

\* the calls that the instances I make, with inputs from V, T and D
Calls(I, V, T, D) ==
    \/ \E i \in I, c \in CacheNames, n \in AppNames, a \in AppAuthors :
            construct(i, c, n, a)
    \/ \E i \in I, k \in Keys, v \in V, t \in T : set(i, k, v, t)
    \/ \E i \in I, k \in Keys, ov \in BOOLEAN, d \in D : get(i, k, ov, d)
    \/ \E i \in I, k \in Keys : invalidate(i, k)
    \/ \E i \in I, k \in Keys : remove(i, k)
    \/ \E i \in I : flush(i)
    \/ \E i \in I : delete(i)

\* one Cache object, every input
Next ==
    \/ Calls({"A"}, SetValues, Timeouts, Defaults)
    \/ Tick

Spec == Init /\ [][Next]_vars

\* two Cache objects of one identity, used in turn
NextShared ==
    \/ Calls(Instances, {"v1", Unpicklable}, {<<>>, <<TickMicros>>}, {None, "d"})
    \/ Tick

SpecShared == Init /\ [][NextShared]_vars

(***************************************************************************)
(* The calls step by step.  Two Cache objects of one identity run their    *)
(* calls at the same time: a step is one access to the file system.        *)
(* __init__ is the existence test, _create and flush; flush and the calls  *)
(* that write are their read (or existence test), the open for writing,    *)
(* which truncates, and the dump.  get is its one read.  invalidate has    *)
(* the steps of set and is left to the whole calls above, as is hist.      *)
(***************************************************************************)
\* open(self.filename, "wb"): the file exists and is empty
Cache_open_wb(f) == File(<<>>)

\* a dump that gives way to what another object has written since the open
DumpKeepsNewer(f, b) == IF f.bytes # <<>> THEN f ELSE File(b)

\* pickle.dump(data, f) and the close: written from offset 0, the file
\* decodes to the data dumped last whatever it held
Cache_dump(f, b) == File(b)

\* __init__ up to its existence test
init_access(i, cachename, appname, appauthor) ==
    LET dir == Cache_cachedir(appname, appauthor)
        p   == Cache_filename(cachename, appname, appauthor)
        obj == [constructed |-> fs[p].exists, cachename |-> cachename,
                cachedir |-> dir, filename |-> p]
    IN  /\ pc[i] = "idle"
        /\ ~inst[i].constructed
        /\ inst' = [inst EXCEPT ![i] = obj]
        /\ IF fs[p].exists
           THEN /\ last' = Call("construct", i, "", FALSE, None, None, "", TRUE)
                /\ UNCHANGED <<pc, mem>>
           ELSE /\ pc' = [pc EXCEPT ![i] = "create"]
                /\ mem' = [mem EXCEPT ![i] = Locals("construct", "", Absent, <<>>, "")]
                /\ UNCHANGED last
        /\ UNCHANGED <<fs, dirs, now, hist, writer>>

\* __init__: self._create()
init_create(i) ==
    /\ pc[i] = "create"
    /\ fs' = [fs EXCEPT ![inst[i].filename] = Cache_create(fs[inst[i].filename])]
    /\ dirs' = dirs \cup {inst[i].cachedir}
    /\ writer' = i
    /\ pc' = [pc EXCEPT ![i] = "flush"]
    /\ UNCHANGED <<inst, now, last, hist, mem>>

\* a call of o on key whose outcome on the file it read is out: it goes on to
\* _write, or it has raised before
begin_write(i, o, key, out) ==
    /\ IF out.exc \in {"", "PicklingError"}
       THEN /\ pc' = [pc EXCEPT ![i] = "open"]
            /\ mem' = [mem EXCEPT ![i] =
                          Locals(o, key, Absent, out.file.bytes, out.exc)]
            /\ UNCHANGED last
       ELSE /\ pc' = [pc EXCEPT ![i] = "idle"]
            /\ last' = Call(o, i, key, FALSE, None, None, out.exc, FALSE)
            /\ UNCHANGED mem
    /\ UNCHANGED <<fs, dirs, inst, now, hist, writer>>

\* __init__: self.flush(), up to its existence test
init_flush(i) ==
    /\ pc[i] = "flush"
    /\ \E out \in Cache_flush(fs[inst[i].filename]) : begin_write(i, "construct", "", out)

\* set up to its _write
set_read(i, key, value, timeout) ==
    /\ pc[i] = "idle"
    /\ inst[i].constructed
    /\ \E out \in Cache_set(fs[inst[i].filename], now, key, value, timeout) :
            begin_write(i, "set", key, out)

\* remove up to its _write
remove_read(i, key) ==
    /\ pc[i] = "idle"
    /\ inst[i].constructed
    /\ \E out \in Cache_remove(fs[inst[i].filename], key) :
            begin_write(i, "remove", key, out)

\* flush up to its _write
flush_access(i) ==
    /\ pc[i] = "idle"
    /\ inst[i].constructed
    /\ \E out \in Cache_flush(fs[inst[i].filename]) : begin_write(i, "flush", "", out)

\* _write: the open
write_open(i) ==
    /\ pc[i] = "open"
    /\ fs' = [fs EXCEPT ![inst[i].filename] = Cache_open_wb(fs[inst[i].filename])]
    /\ mem' = [mem EXCEPT ![i].before = fs[inst[i].filename]]
    /\ writer' = i
    /\ pc' = [pc EXCEPT ![i] = "dump"]
    /\ UNCHANGED <<dirs, inst, now, last, hist>>

\* _write: the dump, and the return of the call
write_dump(i) ==
    /\ pc[i] = "dump"
    /\ fs' = [fs EXCEPT ![inst[i].filename] =
                 Cache_dump(fs[inst[i].filename], mem[i].bytes)]
    /\ writer' = i
    /\ pc' = [pc EXCEPT ![i] = "idle"]
    /\ inst' = [inst EXCEPT ![i].constructed = @ \/ mem[i].exc = ""]
    /\ last' = Call(mem[i].op, i, mem[i].key, FALSE, None, None, mem[i].exc,
                    mem[i].op # "construct")
    /\ UNCHANGED <<dirs, now, hist, mem>>

\* get, between the steps of the other object
get_read(i, key, override, default) ==
    /\ pc[i] = "idle"
    /\ get(i, key, override, default)

NextSteps ==
    \/ \E i \in Instances, c \in CacheNames, n \in AppNames, a \in {None, "app"} :
            init_access(i, c, n, a)
    \/ \E i \in Instances : init_create(i)
    \/ \E i \in Instances : init_flush(i)
    \/ \E i \in Instances, k \in Keys : set_read(i, k, "v1", <<>>)
    \/ \E i \in Instances, k \in Keys : remove_read(i, k)
    \/ \E i \in Instances : flush_access(i)
    \/ \E i \in Instances : write_open(i)
    \/ \E i \in Instances : write_dump(i)
    \/ \E i \in Instances, k \in Keys : get_read(i, k, FALSE, None)

SpecSteps == Init /\ [][NextSteps]_vars

(***************************************************************************)
(* What the claims speak of                                                *)
(***************************************************************************)
\* the backing file of the instance that made the last call
LastFile == fs[inst[last.inst].filename]

\* the store: the mapping the file decodes to
HasStore(f) == f.exists /\ Decodable(f.bytes)

Store(f) == pickle_loads(f.bytes)

\* section 3 of the specification: an entry is live iff it has no expiry or
\* the expiry is still in the future
Live(e, clock) == e.expires = <<>> \/ clock < e.expires[1]

Returned(v) == last.exc = "" /\ last.ret = v

Failed(e) == last.exc = e

\* the outcome of get on a key that was never set
AsNeverSet ==
    IF last.default = None THEN Failed("KeyError") ELSE Returned(last.default)

\* the last call was get(k) and the last write that concerned k was w
GetAfter(w) == last.op = "get" /\ hist[last.key].op = w

(***************************************************************************)
(* C1  Round-trip: after set(k, v) with no timeout, get(k) returns v at    *)
(* every later time, whatever was stored under k before, as long as no     *)
(* invalidate(k), remove(k), set(k, ...), flush() or delete() happens in   *)
(* between.                                                                *)
(***************************************************************************)
C1_RoundTrip ==
    (GetAfter("set") /\ hist[last.key].deadline = <<>>) => Returned(hist[last.key].data)

(***************************************************************************)
(* C2  Expiry boundary: after set(k, v, timeout=t) at time s and no later  *)
(* write to k, get(k) at time now returns v if now < s + t and None if     *)
(* now >= s + t; get(k, override=True) returns v at every time.            *)
(***************************************************************************)
C2_ExpiryBoundary ==
    (GetAfter("set") /\ hist[last.key].deadline # <<>>) =>
        IF last.override \/ now < hist[last.key].deadline[1]
        THEN Returned(hist[last.key].data)
        ELSE Returned(None)

(***************************************************************************)
(* C3  Invalidate: after invalidate(k) on a present key, with a clock that *)
(* never goes backwards, every get(k) without override returns None until  *)
(* the next set(k, ...), also when no time has passed; get(k,              *)
(* override=True) returns the data stored before the invalidate.           *)
(***************************************************************************)
C3_Invalidate ==
    GetAfter("invalidate") =>
        IF last.override THEN Returned(hist[last.key].data) ELSE Returned(None)

(***************************************************************************)
(* C4  Remove: after remove(k) on a present key and until the next         *)
(* set(k, ...), get(k) fails with KeyError when it has no default and      *)
(* returns the default otherwise, with or without override.                *)
(***************************************************************************)
C4_Remove == GetAfter("remove") => AsNeverSet

(***************************************************************************)
(* C5  Flush: after a flush that succeeds the store is the empty mapping   *)
(* and the file still exists; until a key is set again, get on it behaves  *)
(* as for a key that was never set, with or without override.              *)
(***************************************************************************)
C5_Flush ==
    /\ (last.op = "flush" /\ last.exc = "") =>
            (HasStore(LastFile) /\ Store(LastFile) = EmptyDict)
    /\ GetAfter("flush") => AsNeverSet

\* C1 to C5 hold of every get made while the file decodes: they fail only
\* after a set that raised PicklingError has left the file undecodable
Lemma_WhileStoreDecodes ==
    (last.op = "get" /\ HasStore(LastFile)) =>
        (C1_RoundTrip /\ C2_ExpiryBoundary /\ C3_Invalidate /\ C4_Remove /\ C5_Flush)

(***************************************************************************)
(* C6  Missing key: for a key absent from the store, get(k, default=d)     *)
(* returns d for every d that is not None, falsy ones included, and get(k) *)
(* with default None fails with KeyError, with or without override.        *)
(***************************************************************************)
AbsentKey ==
    /\ last.op = "get"
    /\ HasStore(LastFile)
    /\ ~IsKey(Store(LastFile), last.key)

C6_MissingKey == AbsentKey => AsNeverSet

C6_Witness == AbsentKey /\ last.default = "" /\ last.override /\ Returned("")

(***************************************************************************)
(* C7  Expired is distinct from absent: for a key that is in the store but *)
(* not live, get(k, default=d) without override returns None, never d and  *)
(* never KeyError, for every d.                                            *)
(***************************************************************************)
ExpiredKey ==
    /\ last.op = "get"
    /\ HasStore(LastFile)
    /\ IsKey(Store(LastFile), last.key)
    /\ ~Live(Store(LastFile)[last.key], now)
    /\ ~last.override

C7_ExpiredIsNotAbsent == ExpiredKey => Returned(None)

C7_Witness == ExpiredKey /\ last.default = "d" /\ Returned(None)

(***************************************************************************)
(* C8  Shared store, no in-memory copy: for instances of one identity used *)
(* in turn, every get on either instance returns what the most recent      *)
(* completed write on either instance determines: it reads the file that   *)
(* the last writer left, and a get on one instance right after a set,      *)
(* invalidate, remove or flush on the other sees that call's effect.       *)
(* Every instance of this model has the identity ("c", "app", "app").      *)
(***************************************************************************)
ReadsLastWrite ==
    (last.op = "get" /\ writer # "") =>
        [ret |-> last.ret, exc |-> last.exc] =
            Cache_get(fs[inst[writer].filename], now, last.key, last.override, last.default)

SeesOtherInstance ==
    (/\ last.op \in {"set", "invalidate", "remove", "flush"}
     /\ last.exc = ""
     /\ last'.op = "get"
     /\ last'.inst # last.inst
     /\ last.op # "flush" => last'.key = last.key)
    => LET w == hist[last'.key]
       IN  /\ w.op = last.op
           /\ last'.exc = IF w.op \in {"remove", "flush"} /\ last'.default = None
                          THEN "KeyError" ELSE ""
           /\ last'.ret = IF w.op \in {"remove", "flush"} THEN last'.default
                          ELSE IF last'.override THEN w.data
                          ELSE IF w.op = "set" /\ (w.deadline = <<>> \/ now < w.deadline[1])
                          THEN w.data
                          ELSE None

C9_ConstructKeepsFile ==
    [][(last'.op = "construct" /\ fs[inst'[last'.inst].filename].exists)
        => (fs' = fs /\ last'.exc = "")]_vars

C9_Witness ==
    /\ last.op = "construct"
    /\ last.existed
    /\ writer \notin {"", last.inst}
    /\ HasStore(LastFile)
    /\ Store(LastFile) # EmptyDict

(***************************************************************************)
(* C10  File invariant: in every state of a sequential run that starts     *)
(* with a construction, and until delete() is called, the backing file     *)
(* exists and decodes to a mapping whose entries have exactly the fields   *)
(* expires and data.                                                       *)
(***************************************************************************)
Deleted == \A k \in Keys : hist[k].op = "delete"

ValidFile(f) ==
    /\ HasStore(f)
    /\ \A k \in DOMAIN Store(f) : DOMAIN Store(f)[k] = {"expires", "data"}

C10_FileInvariant ==
    \A i \in Instances : (inst[i].constructed /\ ~Deleted) => ValidFile(fs[inst[i].filename])

\* C10 fails only after a set that raised PicklingError
Lemma_FileInvariant ==
    (\A k \in Keys : hist[k].op # "set failed") => C10_FileInvariant

(***************************************************************************)
(* C14  No recreation after delete: after a delete that succeeds the file  *)
(* does not exist and, until a new construction, every get, set,           *)
(* invalidate and remove fails with IOError, flush fails with the IOError  *)
(* that the specification calls CacheFileMissing, and a second delete      *)
(* fails with OSError; none of these calls creates the file.               *)
(***************************************************************************)
NoFile == \A p \in Paths : ~fs[p].exists

AfterDelete ==
    /\ Deleted
    /\ NoFile
    /\ last.op \in {"get", "set", "invalidate", "remove", "flush"} => Failed("IOError")

C14_NoRecreation ==
    /\ [](Deleted => AfterDelete)
    /\ [][(Deleted /\ last'.op = "delete") => last'.exc = "OSError"]_vars
    /\ [][(Deleted /\ last'.op # "construct") => fs' = fs]_vars

C14_Witness == Deleted /\ last.op = "flush" /\ Failed("IOError")

(***************************************************************************)
(* C15  Fresh store after delete: when a construction follows a delete,    *)
(* the file exists again and holds the empty mapping, so that a get of any *)
(* key, with or without override, fails with KeyError or returns the       *)
(* default.                                                                *)
(***************************************************************************)
Recreated ==
    /\ last.op = "construct"
    /\ ~last.existed
    /\ \A k \in Keys : hist[k].op = "recreate"

Fresh(f) ==
    /\ HasStore(f)
    /\ Store(f) = EmptyDict
    /\ \A k \in Keys, ov \in BOOLEAN, d \in Defaults :
            Cache_get(f, now, k, ov, d) = GetDefault(d)

C15_FreshAfterDelete ==
    /\ [](Recreated => Fresh(LastFile))
    /\ [][(Recreated /\ last'.op = "get") => AsNeverSet']_vars

C15_Witness == GetAfter("recreate") /\ last.override /\ Failed("KeyError")

(***************************************************************************)
(* C16  Absent key on a mutating call: invalidate(k) and remove(k) on a    *)
(* key that is not in the store fail with KeyError and leave the file as   *)
(* it was: every other key keeps its data and its expiry and nothing is    *)
(* written.                                                                *)
(***************************************************************************)
\* the next step is a call of o on a decodable store that lacks the call's key
OnAbsentKey(o) ==
    /\ last'.op = o
    /\ HasStore(fs[inst[last'.inst].filename])
    /\ ~IsKey(Store(fs[inst[last'.inst].filename]), last'.key)

C16_AbsentKeyMutation ==
    [][(OnAbsentKey("invalidate") \/ OnAbsentKey("remove"))
            => (last'.exc = "KeyError" /\ fs' = fs)]_vars

C16_Witness ==
    /\ last.op \in {"invalidate", "remove"}
    /\ Failed("KeyError")
    /\ HasStore(LastFile)
    /\ DOMAIN Store(LastFile) = Keys \ {last.key}

(***************************************************************************)
(* C17  A failed set does not lose data: when set(k, v) fails because v    *)
(* cannot be pickled, the stored mapping is the same as before the call    *)
(* and the file still decodes to a mapping.                                *)
(***************************************************************************)
SetFailedEncoding == last'.op = "set" /\ last'.exc = "PicklingError"

C17_FailedSetKeepsData ==
    [][SetFailedEncoding
            => /\ HasStore(fs'[inst[last'.inst].filename])
               /\ Store(fs'[inst[last'.inst].filename])
                    = Store(fs[inst[last'.inst].filename])]_vars

\* what the code does instead: the file is left without a decodable mapping
Lemma_FailedSetTruncates ==
    (last.op = "set" /\ Failed("PicklingError")) => ~HasStore(LastFile)

(***************************************************************************)
(* C18  Key-level frame of the mutating calls in a sequential run:         *)
(* set(k, ...), invalidate(k) and remove(k) leave the entry of every other *)
(* key unchanged in data and expires; the set of keys changes only by      *)
(* adding k (set) or dropping k (remove); invalidate(k) changes only the   *)
(* expires field of k.                                                     *)
(***************************************************************************)
\* the next step is a call of o on a decodable store
MutatesStore(o) ==
    last'.op = o /\ HasStore(fs[inst[last'.inst].filename])

\* the store after the step agrees with the store before it outside key k,
\* and its keys are those of ks
FrameExcept(k, ks) ==
    LET before == Store(fs[inst[last'.inst].filename])
        after  == Store(fs'[inst[last'.inst].filename])
    IN  /\ HasStore(fs'[inst[last'.inst].filename])
        /\ DOMAIN after = ks
        /\ \A k2 \in DOMAIN before \ {k} : k2 \in DOMAIN after => after[k2] = before[k2]
        /\ \A p \in Paths : p # inst[last'.inst].filename => fs'[p] = fs[p]

KeysBefore == DOMAIN Store(fs[inst[last'.inst].filename])

SetFrame ==
    MutatesStore("set") => FrameExcept(last'.key, KeysBefore \cup {last'.key})

RemoveFrame ==
    MutatesStore("remove") => FrameExcept(last'.key, KeysBefore \ {last'.key})

InvalidateFrame ==
    MutatesStore("invalidate")
        => /\ FrameExcept(last'.key, KeysBefore)
           /\ last'.key \in KeysBefore
                => Store(fs'[inst[last'.inst].filename])[last'.key].data
                     = Store(fs[inst[last'.inst].filename])[last'.key].data

C18_KeyFrame == [][SetFrame /\ RemoveFrame /\ InvalidateFrame]_vars

\* the frame holds for every call that does not end with PicklingError
Lemma_KeyFrame ==
    [][last'.exc # "PicklingError" => (SetFrame /\ RemoveFrame /\ InvalidateFrame)]_vars

(***************************************************************************)
(* C19  get is read-only and expiry never evicts: no get changes the file, *)
(* the passage of time alone removes no key, and an expired or invalidated *)
(* entry stays in the store, so that get(k, override=True) keeps returning *)
(* its data until remove(k), set(k, ...), flush() or delete().             *)
(***************************************************************************)
GetReadsOnly == [][last'.op \in {"get", "tick"} => fs' = fs]_vars

\* the last write that concerned the key of the last call left an entry whose
\* expiry has passed
ExpiredEntry ==
    /\ hist[last.key].op \in {"set", "invalidate"}
    /\ hist[last.key].deadline # <<>>
    /\ now >= hist[last.key].deadline[1]

ExpiredStays ==
    (last.op = "get" /\ ExpiredEntry)
        => /\ HasStore(LastFile)
           /\ IsKey(Store(LastFile), last.key)
           /\ last.override => Returned(hist[last.key].data)

C19_GetReadOnly == GetReadsOnly /\ []ExpiredStays

\* an expired entry stays for as long as the file decodes
Lemma_ExpiredStays ==
    GetReadsOnly /\ []((last.op = "get" /\ HasStore(LastFile)) => ExpiredStays)

(***************************************************************************)
(* C11  Creation visibility: while a construction creates a missing file,  *)
(* no other Cache object of the same identity finds under the final name a *)
(* file that does not decode to a mapping, and a get by a second object    *)
(* between the steps of the construction never fails with a decoding       *)
(* error.                                                                  *)
(***************************************************************************)
\* i is between the existence test of its __init__ and the return
Constructing(i) == pc[i] # "idle" /\ mem[i].op = "construct"

\* the step is a get
GetStep == last'.op = "get" /\ pc' = pc /\ fs' = fs

VisibleFileDecodes ==
    \A i \in Instances :
        (Constructing(i) /\ \A j \in Instances \ {i} : pc[j] = "idle")
            => (fs[inst[i].filename].exists => HasStore(fs[inst[i].filename]))

C11_CreationVisibility ==
    /\ []VisibleFileDecodes
    /\ [][\A i \in Instances :
            (GetStep /\ last'.inst # i /\ Constructing(i)) => last'.exc # "EOFError"]_vars

(***************************************************************************)
(* C12  Lost update at file granularity: when two sets on different keys   *)
(* interleave their read and write steps, the set whose dump comes last    *)
(* leaves a store without the key of the other, which was in the file when *)
(* it opened it, and neither call raises; two sets on an empty store can   *)
(* end with one key only.                                                  *)
(***************************************************************************)
\* j has dumped last, a mapping without the key that i had set and that was
\* in the file when j opened it for writing
Overwrote(i, j) ==
    /\ i # j
    /\ pc[i] = "idle" /\ pc[j] = "idle"
    /\ writer = j
    /\ mem[i].op = "set" /\ mem[j].op = "set"
    /\ mem[i].key # mem[j].key
    /\ HasStore(mem[j].before)
    /\ IsKey(Store(mem[j].before), mem[i].key)
    /\ ~IsKey(pickle_loads(mem[j].bytes), mem[i].key)

C12_LostUpdate ==
    \A i, j \in Instances :
        Overwrote(i, j)
            => /\ HasStore(fs[inst[j].filename])
               /\ DOMAIN Store(fs[inst[j].filename]) = DOMAIN pickle_loads(mem[j].bytes)
               /\ ~IsKey(Store(fs[inst[j].filename]), mem[i].key)
               /\ IsKey(Store(fs[inst[j].filename]), mem[j].key)
               /\ mem[i].exc = "" /\ mem[j].exc = ""

C12_Witness ==
    /\ Overwrote("A", "B")
    /\ last.op = "set" /\ last.inst = "B" /\ last.exc = ""
    /\ DOMAIN pickle_loads(mem["A"].bytes) = {"k1"}
    /\ DOMAIN Store(fs[inst["B"].filename]) = {"k2"}

(***************************************************************************)
(* C13  Atomic replacement as seen by a caller: a get that runs while      *)
(* another object of the same identity is writing (set, remove, flush)     *)
(* finds the complete mapping from before that write or the complete       *)
(* mapping after it, never an empty or partly written file, and never      *)
(* fails with a decoding error.                                            *)
(***************************************************************************)
\* i has opened the file for a write and has not dumped yet
Writing(i) == pc[i] = "dump" /\ mem[i].op # "construct"

Outcome(c) == [ret |-> c.ret, exc |-> c.exc]

C13_AtomicReplace ==
    [][\A i \in Instances :
         (GetStep /\ last'.inst # i /\ Writing(i))
            => /\ HasStore(fs[inst[i].filename])
               /\ last'.exc # "EOFError"
               /\ Outcome(last') \in
                    {Cache_get(mem[i].before, now, last'.key, last'.override, last'.default),
                     Cache_get(File(mem[i].bytes), now, last'.key, last'.override,
                               last'.default)}]_vars

(***************************************************************************)
(* C20  Concurrent construction does not discard data: when two Cache      *)
(* objects of the same identity are constructed at the same time with the  *)
(* file absent, no step of one construction (existence test, create by     *)
(* rename, flush) loses an entry that the other object has set after its   *)
(* own construction returned.                                              *)
(***************************************************************************)
C20_ConstructKeepsEntries ==
    [][\A i \in Instances :
         (Constructing(i) /\ pc'[i] # pc[i] /\ HasStore(fs[inst[i].filename]))
            => \A k \in DOMAIN Store(fs[inst[i].filename]) :
                 /\ HasStore(fs'[inst[i].filename])
                 /\ IsKey(Store(fs'[inst[i].filename]), k)
                 /\ Store(fs'[inst[i].filename])[k] = Store(fs[inst[i].filename])[k]]_vars

====
